---- MODULE Spec2Model ----
(***************************************************************************)
(* A model of maf_plot.py: the MAF reference cursor (MAF_Reader), the      *)
(* snp-stats line traversal (Entry.for_entry), the merge join (remaf),     *)
(* the bins (Bin) and the line report (lineplot).                          *)
(*                                                                         *)
(* Text is modelled after splitting: a line is the sequence of its         *)
(* whitespace-separated tokens, and every token is a string.  Python's     *)
(* 0-based column numbers are kept 1-based here (location + 1).  A float   *)
(* is a whole number of ten-thousandths (0.0005 is 5, 0.5 is 5000, -1 is   *)
(* -10000); float() and str() are the tables FloatTable and StrOfFloat.    *)
(***************************************************************************)
EXTENDS Integers, Sequences, FiniteSets, TLC

VARIABLES
    HEADER,      \* the module global HEADER (rebound by use_alt_header)
    COLUMN,      \* the module global COLUMN: column name -> location
    alt_switches,\* how many times use_alt_header has run (its print)
    handed,      \* the kinds of line for_entry has handed to its callback f
    maffile,     \* the lines of the reference stream
    maf_at,      \* how many lines of maffile have been read
    maf_reader,  \* the MAF_Reader object: chr, pos, maf, maj, min, ended
    i,           \* remaf's loop variable (0 before the loop)
    pc,          \* where the running command is
    error,       \* the exception that ended the run, "none" if none
    src_lines,   \* the lines read so far from the open source file
    dest_file,   \* the lines written so far to the open destination file
    open_files,  \* the file handles that are open
    hits,        \* the global hits
    misses,      \* the global misses
    joined,      \* per process_entry call of this pass: its line, the stream
                 \* position before and after, the cursor after, the exception
    last_call,   \* the last call made on the cursor: the state before and after it
    ncalls,      \* how many calls were made on an object driven on its own
    bins,        \* a list of Bin objects: minimum, maximum, n, average
    adds,        \* per bin of bins, the add_if_in_range calls made on it: <<x, y>>
    probe,       \* an item, and what in_range and find_bin gave for it
    stats,       \* lineplot's stats: one row per appended info, bin and panel
    panel,       \* lineplot's loop over args.source: the index of the folder
    last_sort,   \* the last Bin.sort call: key, item, the bins before, the value returned
    thresholds,  \* args.thresholds: the info thresholds of the band report
    ranges,      \* barplot's ranges: the list of band Bins
    categories,  \* barplot's categories: band label -> that band's list of Bins
    last_count   \* the last update_count call: info, maf, the categories before

vars == <<HEADER, COLUMN, alt_switches, handed, maffile, maf_at, maf_reader, i, pc,
          error, src_lines, dest_file, open_files, hits, misses, joined, last_call,
          ncalls, bins, adds, probe, stats, panel, last_sort, thresholds,
          ranges, categories, last_count>>

\* the state of the bins and of the line report
reportVars ==
    <<bins, adds, probe, stats, panel, last_sort, thresholds, ranges, categories, last_count>>

\* the state of the band report
bandVars == <<last_sort, thresholds, ranges, categories, last_count>>

-----------------------------------------------------------------------------
(* Bounds of the model *)

\* remaf visits chromosomes 1..NumChr (range(1,23) in the source)
NumChr == 2
\* positions are PosToks[1..MaxPos]
MaxPos == 3
\* the reference stream holds at most MaxRef records
MaxRef == 2
\* at most MaxLines lines are read from one source file
MaxLines == 4
\* at most MaxCalls calls are made on an object driven on its own
MaxCalls == 3

-----------------------------------------------------------------------------
(* Tokens and conversions *)

ChrNames == <<"chr1", "chr2", "chr3", "chr4">>

\* "chr" + str(i)
ChrName(c) == ChrNames[c]

ChrIndex(tok) == CHOOSE c \in 1..Len(ChrNames) : ChrNames[c] = tok

PosToks == <<"100", "200", "300", "400", "500">>

\* int(token): the tokens int() accepts, and their values
IsIntTok(tok) == \E p \in 1..Len(PosToks) : PosToks[p] = tok

IntOf(tok) == 100 * (CHOOSE p \in 1..Len(PosToks) : PosToks[p] = tok)

\* float(token) in ten-thousandths; a token outside the table raises ValueError
FloatTable ==
    ("0" :> 0) @@ ("0.0003" :> 3) @@ ("0.001" :> 10) @@ ("0.1" :> 1000) @@
    ("0.10" :> 1000) @@ ("0.2" :> 2000) @@ ("0.30" :> 3000) @@ ("0.3" :> 3000) @@
    ("0.4" :> 4000) @@ ("0.5" :> 5000) @@ ("0.7" :> 7000) @@ ("0.9" :> 9000) @@
    ("-1" :> -10000)

IsFloatTok(tok) == tok \in DOMAIN FloatTable

FloatOf(tok) == FloatTable[tok]

\* str(x) of a float x (repr: the shortest text that reads back as x)
StrOfFloat(x) ==
    CASE x = 0 -> "0.0"
      [] x = 3 -> "0.0003"
      [] x = 10 -> "0.001"
      [] x = 1000 -> "0.1"
      [] x = 2000 -> "0.2"
      [] x = 3000 -> "0.3"
      [] x = 4000 -> "0.4"
      [] x = 5000 -> "0.5"
      [] x = 7000 -> "0.7"
      [] x = 9000 -> "0.9"
      [] x = -10000 -> "-1.0"

\* str(-1) of the int -1
StrMinusOne == "-1"

-----------------------------------------------------------------------------
(* The two header layouts and the column map *)

DEFAULT_HEADER ==
    <<"alternate_ids", "rsid", "chromosome", "position", "alleleA", "alleleB",
      "comment", "HW_exact_p_value", "HW_lrt_p_value", "alleleA_count",
      "alleleB_count", "alleleA_frequency", "alleleB_frequency",
      "minor_allele_frequency", "minor_allele", "major_allele", "info",
      "impute_info", "missing_proportion", "A", "B", "AA", "AB", "BB", "NULL",
      "total">>

ALT_HEADER ==
    <<"alternate_ids", "rsid", "chromosome", "position", "alleleA", "alleleB",
      "comment", "alleleA_count", "alleleB_count", "alleleA_frequency",
      "alleleB_frequency", "minor_allele_frequency", "minor_allele",
      "major_allele", "info", "impute_info", "missing_proportion", "A", "B",
      "AA", "AB", "BB", "NULL", "total">>

\* {value: location for location, value in enumerate(header.split())}
ColumnMap(header) ==
    [name \in {header[k] : k \in 1..Len(header)} |->
        CHOOSE k \in 1..Len(header) : header[k] = name]

\* `header in line`: the header's text occurs in the line's text
Contains(line, header) ==
    \E off \in 0..(Len(line) - Len(header)) :
        SubSeq(line, off + 1, off + Len(header)) = header

\* line[0] == "#"
IsComment(line) == Len(line) > 0 /\ line[1] = "#"

-----------------------------------------------------------------------------
(* The inputs: the reference stream and the lines of a snp-stats file *)

RefMafToks == <<"0.1", "0.4", "0.30">>

\* the line of the reference stream for chromosome c, position PosToks[p]:
\* CHR POS MAF MAJ MIN
RefLine(c, p) ==
    <<ChrName(c), PosToks[p], RefMafToks[((c + p - 2) % Len(RefMafToks)) + 1], "A", "G">>

RefKeys == (1..NumChr) \X (1..MaxPos)

KeyLess(a, b) == a[1] < b[1] \/ (a[1] = b[1] /\ a[2] < b[2])

RECURSIVE SortedRef(_)
\* the records of the key set S, sorted by chromosome and then by position
SortedRef(S) ==
    IF S = {} THEN <<>>
    ELSE LET m == CHOOSE a \in S : \A b \in S \ {a} : KeyLess(a, b)
         IN <<RefLine(m[1], m[2])>> \o SortedRef(S \ {m})

RefStreams == {SortedRef(S) : S \in {T \in SUBSET RefKeys : Cardinality(T) <= MaxRef}}

CommentLine == <<"#", "snp-stats">>

\* a data line of the given layout: chromosome, position, MAF and info tokens in
\* their columns, every other column holding a token of its own
DataLine(header, chrTok, posTok, mafTok, infoTok) ==
    [k \in 1..Len(header) |->
        CASE header[k] = "chromosome" -> chrTok
          [] header[k] = "position" -> posTok
          [] header[k] = "minor_allele_frequency" -> mafTok
          [] header[k] = "info" -> infoTok
          [] OTHER -> header[k]]

IsHeaderLine(line) == line = DEFAULT_HEADER \/ line = ALT_HEADER

IsDataLine(line) == ~IsComment(line) /\ ~IsHeaderLine(line)

\* the layout a file declares: that of the header line read from it
DeclaredHeader(lines) ==
    lines[CHOOSE k \in 1..Len(lines) : IsHeaderLine(lines[k])]

HasHeader(lines) == \E k \in 1..Len(lines) : IsHeaderLine(lines[k])

DataOf(lines) == SelectSeq(lines, IsDataLine)

\* the position index of a data line (its position column is the same in both layouts)
PosIndexOf(line) == CHOOSE p \in 1..Len(PosToks) : PosToks[p] = line[4]

\* the lines a well-formed file of chromosome c may hold next: leading comment
\* lines, one header line, then the records in the declared layout, sorted
\* ascending by position (among the positions given), with the MAF and info
\* tokens given
SourceLines(c, lines, positions, mafToks, infoToks) ==
    IF ~HasHeader(lines) THEN {CommentLine, DEFAULT_HEADER, ALT_HEADER}
    ELSE LET d == DataOf(lines)
             low == IF d = <<>> THEN 1 ELSE PosIndexOf(d[Len(d)])
         IN {DataLine(DeclaredHeader(lines), ChrName(c), PosToks[p], m, f) :
               p \in {q \in positions : q >= low}, m \in mafToks, f \in infoToks}

\* the lines of a file remaf reads
NextSourceLines(c, lines) == SourceLines(c, lines, 1..MaxPos, {"0.7"}, {"0.9"})

-----------------------------------------------------------------------------
(* MAF_Reader *)

\* MAF_Reader.__init__: chr is None, ended is False; pos, maf, maj and min are
\* not attributes yet (0 and "" stand for the missing attributes)
NewReader == [chr |-> "None", pos |-> 0, maf |-> 0, maj |-> "", min |-> "", ended |-> FALSE]

\* readline() on a stream read from its last line back to its first
ReadLineBackward(at) == IF at < Len(maffile) THEN maffile[Len(maffile) - at] ELSE <<>>

\* self.source.readline().split(): the next line's tokens, the empty list at the end
ReadLineSplit(at) == IF at < Len(maffile) THEN maffile[at + 1] ELSE <<>>

\* `line == ""`, where line is the list split() returned: a list is never equal
\* to a str, the empty list included
IsEmptyRead(line) == FALSE

\* MAF_Reader.advance: the cursor, the stream position and the exception raised
\* (the attributes assigned before an exception stay assigned)
Advance(r, at) ==
    LET line == ReadLineSplit(at)
        at2 == IF at < Len(maffile) THEN at + 1 ELSE at
        n == Len(line)
    IN IF IsEmptyRead(line)
       THEN [reader |-> [r EXCEPT !.ended = TRUE], at |-> at2, err |-> "none"]
       ELSE IF n < 1 THEN [reader |-> r, at |-> at2, err |-> "IndexError"]
       ELSE LET r1 == [r EXCEPT !.chr = line[1]]
            IN IF n < 2 THEN [reader |-> r1, at |-> at2, err |-> "IndexError"]
               ELSE IF ~IsIntTok(line[2]) THEN [reader |-> r1, at |-> at2, err |-> "ValueError"]
               ELSE LET r2 == [r1 EXCEPT !.pos = IntOf(line[2])]
                    IN IF n < 3 THEN [reader |-> r2, at |-> at2, err |-> "IndexError"]
                       ELSE IF ~IsFloatTok(line[3])
                            THEN [reader |-> r2, at |-> at2, err |-> "ValueError"]
                       ELSE LET r3 == [r2 EXCEPT !.maf = FloatOf(line[3])]
                            IN IF n < 4 THEN [reader |-> r3, at |-> at2, err |-> "IndexError"]
                               ELSE IF n < 5
                                    THEN [reader |-> [r3 EXCEPT !.maj = line[4]],
                                          at |-> at2, err |-> "IndexError"]
                               ELSE [reader |-> [r3 EXCEPT !.maj = line[4], !.min = line[5]],
                                     at |-> at2, err |-> "none"]

\* advance_to without the chromosome test
AdvanceToOnce(r, at, chr) ==
    IF ~r.ended THEN Advance(r, at) ELSE [reader |-> r, at |-> at, err |-> "none"]

RECURSIVE AdvanceTo(_, _, _)
\* MAF_Reader.advance_to: while self.chr != chr and not self.ended: self.advance()
AdvanceTo(r, at, chr) ==
    IF r.chr # chr /\ ~r.ended
    THEN LET a == Advance(r, at)
         IN IF a.err # "none" THEN a ELSE AdvanceTo(a.reader, a.at, chr)
    ELSE [reader |-> r, at |-> at, err |-> "none"]

-----------------------------------------------------------------------------
(* Entry and Entry.for_entry *)

\* Entry.pos: int(self.data[COLUMN['position']]) raises ValueError on other text
EntryPosTok(data) == data[COLUMN["position"]]

\* Entry.chr
EntryChr(data) == data[COLUMN["chromosome"]]

\* set_maf with the MAF column of the default layout, whatever COLUMN says
SetMafDefaultColumn(data, text) == [data EXCEPT ![14] = text]

\* Entry.set_maf: self.data[COLUMN["minor_allele_frequency"]] = str(maf)
SetMaf(data, text) == [data EXCEPT ![COLUMN["minor_allele_frequency"]] = text]

\* what the body of for_entry's loop does with a line: "continue" (a comment or
\* the current HEADER), "use_alt_header" (then continue), or "f" (call f on it)
ForEntryDoes(line) ==
    IF IsComment(line) THEN "continue"
    ELSE IF Contains(line, HEADER) THEN "continue"
    ELSE IF Contains(line, ALT_HEADER) THEN "use_alt_header"
    ELSE "f"

\* what kind of line f was called on
KindOf(line) ==
    IF line = DEFAULT_HEADER THEN "default header"
    ELSE IF line = ALT_HEADER THEN "alternate header"
    ELSE "data"

\* use_alt_header
UseAltHeader ==
    /\ HEADER' = ALT_HEADER
    /\ COLUMN' = ColumnMap(ALT_HEADER)
    /\ alt_switches' = alt_switches + 1

-----------------------------------------------------------------------------
(* remaf *)

RECURSIVE SkipLoopThrough(_, _, _, _)
\* the skip loop with <= for <: it also passes over the record at pos
SkipLoopThrough(r, at, chr, pos) ==
    IF ~r.ended /\ r.chr = chr /\ r.pos <= pos
    THEN LET a == Advance(r, at)
         IN IF a.err # "none" THEN a ELSE SkipLoopThrough(a.reader, a.at, chr, pos)
    ELSE [reader |-> r, at |-> at, err |-> "none"]

RECURSIVE SkipLoop(_, _, _, _)
\* while not maf_reader.ended and maf_reader.chr == chr and maf_reader.pos < pos:
\*     maf_reader.advance()
SkipLoop(r, at, chr, pos) ==
    IF ~r.ended /\ r.chr = chr /\ r.pos < pos
    THEN LET a == Advance(r, at)
         IN IF a.err # "none" THEN a ELSE SkipLoop(a.reader, a.at, chr, pos)
    ELSE [reader |-> r, at |-> at, err |-> "none"]

\* if not maf_reader.ended and maf_reader.chr == chr and maf_reader.pos == pos
IsHit(r, chr, pos) == ~r.ended /\ r.chr = chr /\ r.pos = pos

\* remaf's process_entry on the tokens of one line: the cursor, the stream
\* position, the counters, the line written (if any) and the exception raised
ProcessEntry(data) ==
    LET same == [reader |-> maf_reader, at |-> maf_at, hits |-> hits, misses |-> misses,
                 written |-> <<>>, err |-> "none"]
    IN IF ~IsIntTok(EntryPosTok(data)) THEN [same EXCEPT !.err = "ValueError"]
       ELSE LET pos == IntOf(EntryPosTok(data))
                chr == EntryChr(data)
                sk == SkipLoop(maf_reader, maf_at, chr, pos)
            IN IF sk.err # "none"
               THEN [same EXCEPT !.reader = sk.reader, !.at = sk.at, !.err = sk.err]
               ELSE IF IsHit(sk.reader, chr, pos)
               THEN [reader |-> sk.reader, at |-> sk.at, hits |-> hits + 1, misses |-> misses,
                     written |-> <<SetMaf(data, StrOfFloat(sk.reader.maf))>>, err |-> "none"]
               ELSE [reader |-> sk.reader, at |-> sk.at, hits |-> hits, misses |-> misses + 1,
                     written |-> <<SetMaf(data, StrMinusOne)>>, err |-> "none"]

\* the counters left as the last pass left them
KeepCounters == [hits |-> hits, misses |-> misses]

\* the counters after `hits = 0; misses = 0` at the start of a pass
ResetCounters == [hits |-> 0, misses |-> 0]

NoCall == [op |-> "none", target |-> "None", before |-> NewReader, at0 |-> 0,
           after |-> NewReader, at1 |-> 0, err |-> "none"]

\* one turn of remaf's loop up to the call of for_entry: advance the cursor to
\* the chromosome, open both files, write the header, reset the counters
RemafStartPass ==
    /\ pc = "loop"
    /\ i < NumChr
    /\ i' = i + 1
    /\ LET a == AdvanceTo(maf_reader, maf_at, ChrName(i + 1))
       IN /\ maf_reader' = a.reader
          /\ maf_at' = a.at
          /\ last_call' = [op |-> "advance_to", target |-> ChrName(i + 1),
                           before |-> maf_reader, at0 |-> maf_at,
                           after |-> a.reader, at1 |-> a.at, err |-> a.err]
          /\ IF a.err # "none"
             THEN /\ error' = a.err
                  /\ pc' = "error"
                  /\ UNCHANGED <<open_files, dest_file, hits, misses, src_lines, joined>>
             ELSE /\ open_files' = {<<"src", i + 1>>, <<"dest", i + 1>>}
                  /\ dest_file' = <<HEADER>>
                  /\ hits' = ResetCounters.hits
                  /\ misses' = ResetCounters.misses
                  /\ src_lines' = <<>>
                  /\ joined' = <<>>
                  /\ pc' = "for_entry"
                  /\ UNCHANGED error
    /\ UNCHANGED <<HEADER, COLUMN, alt_switches, handed, maffile, ncalls>>
    /\ UNCHANGED reportVars

\* one turn of for_entry's loop in remaf: the next line of the source file
RemafLine(line) ==
    /\ pc = "for_entry"
    /\ Len(src_lines) < MaxLines
    /\ src_lines' = Append(src_lines, line)
    /\ LET what == ForEntryDoes(line)
       IN CASE what = "continue" ->
                 UNCHANGED <<HEADER, COLUMN, alt_switches, handed, maf_reader, maf_at, hits,
                             misses, dest_file, joined, pc, error>>
            [] what = "use_alt_header" ->
                 /\ UseAltHeader
                 /\ UNCHANGED <<handed, maf_reader, maf_at, hits, misses, dest_file, joined,
                                pc, error>>
            [] what = "f" ->
                 LET r == ProcessEntry(line)
                 IN /\ handed' = handed \cup {KindOf(line)}
                    /\ maf_reader' = r.reader
                    /\ maf_at' = r.at
                    /\ hits' = r.hits
                    /\ misses' = r.misses
                    /\ dest_file' = dest_file \o r.written
                    /\ joined' = Append(joined, [line |-> Len(src_lines) + 1,
                                                 from |-> maf_at, to |-> r.at,
                                                 cur |-> r.reader, err |-> r.err])
                    /\ error' = r.err
                    /\ pc' = IF r.err # "none" THEN "error" ELSE pc
                    /\ UNCHANGED <<HEADER, COLUMN, alt_switches>>
    /\ UNCHANGED <<maffile, i, open_files, last_call, ncalls>>
    /\ UNCHANGED reportVars

\* for_entry returns at the end of the source file: print the counters, close
\* both files, go on to the next chromosome
RemafEndPass ==
    /\ pc = "for_entry"
    /\ open_files' = {}
    /\ pc' = IF i = NumChr THEN "done" ELSE "loop"
    /\ UNCHANGED <<HEADER, COLUMN, alt_switches, handed, maffile, maf_at, maf_reader, i,
                   error, src_lines, dest_file, hits, misses, joined, last_call, ncalls>>
    /\ UNCHANGED reportVars

\* the state of the module once it is loaded, with a new MAF_Reader and no
\* call made yet
Loaded ==
    /\ HEADER = DEFAULT_HEADER
    /\ COLUMN = ColumnMap(DEFAULT_HEADER)
    /\ alt_switches = 0
    /\ handed = {}
    /\ maf_at = 0
    /\ maf_reader = NewReader
    /\ i = 0
    /\ error = "none"
    /\ src_lines = <<>>
    /\ dest_file = <<>>
    /\ open_files = {}
    /\ hits = 0
    /\ misses = 0
    /\ joined = <<>>
    /\ last_call = NoCall
    /\ ncalls = 0

NoProbe == [item |-> 0, done |-> FALSE, inside |-> {}, found |-> 0]

NoSort == [done |-> FALSE, key |-> 0, item |-> 0, before |-> <<>>, returned |-> FALSE]

NoCount == [done |-> FALSE, info |-> 0, maf |-> 0, before |-> <<>>]

\* no band report started
NoBarplot ==
    /\ ranges = <<>>
    /\ categories = <<>>
    /\ last_count = NoCount

\* no Bin.sort call made, no band report started
NoBands ==
    /\ last_sort = NoSort
    /\ thresholds = <<>>
    /\ NoBarplot

\* no bins made, no line report started
NoReport ==
    /\ bins = <<>>
    /\ adds = <<>>
    /\ probe = NoProbe
    /\ stats = <<>>
    /\ panel = 0
    /\ NoBands

\* the state when remaf enters its loop, on any sorted reference stream
Init == Loaded /\ NoReport /\ maffile \in RefStreams /\ pc = "loop"

Next ==
    \/ RemafStartPass
    \/ \E line \in NextSourceLines(i, src_lines) : RemafLine(line)
    \/ RemafEndPass

Spec == Init /\ [][Next]_vars

-----------------------------------------------------------------------------
(* The cursor driven on its own: any sequence of advance and advance_to calls *)

\* a call of maf_reader.advance()
CallAdvance ==
    /\ pc = "cursor"
    /\ ncalls < MaxCalls
    /\ ncalls' = ncalls + 1
    /\ LET a == Advance(maf_reader, maf_at)
       IN /\ maf_reader' = a.reader
          /\ maf_at' = a.at
          /\ error' = a.err
          /\ last_call' = [op |-> "advance", target |-> "None",
                           before |-> maf_reader, at0 |-> maf_at,
                           after |-> a.reader, at1 |-> a.at, err |-> a.err]
    /\ UNCHANGED <<HEADER, COLUMN, alt_switches, handed, maffile, i, pc, src_lines,
                   dest_file, open_files, hits, misses, joined>>
    /\ UNCHANGED reportVars

\* a call of maf_reader.advance_to(chr)
CallAdvanceTo(chr) ==
    /\ pc = "cursor"
    /\ ncalls < MaxCalls
    /\ ncalls' = ncalls + 1
    /\ LET a == AdvanceTo(maf_reader, maf_at, chr)
       IN /\ maf_reader' = a.reader
          /\ maf_at' = a.at
          /\ error' = a.err
          /\ last_call' = [op |-> "advance_to", target |-> chr,
                           before |-> maf_reader, at0 |-> maf_at,
                           after |-> a.reader, at1 |-> a.at, err |-> a.err]
    /\ UNCHANGED <<HEADER, COLUMN, alt_switches, handed, maffile, i, pc, src_lines,
                   dest_file, open_files, hits, misses, joined>>
    /\ UNCHANGED reportVars

InitCursor == Loaded /\ NoReport /\ maffile \in RefStreams /\ pc = "cursor"

NextCursor ==
    \/ CallAdvance
    \/ \E c \in 1..NumChr : CallAdvanceTo(ChrName(c))

SpecCursor == InitCursor /\ [][NextCursor]_vars

\* the cursor fields other than ended
Fields(r) == <<r.chr, r.pos, r.maf, r.maj, r.min>>

\* C4: when advance() is called and the reference stream has no more lines, the
\* call raises nothing, sets ended and leaves chr, pos, maf, maj and min as they
\* were; and a call made on an ended cursor changes nothing and raises nothing.
C4_EndOfStream ==
    /\ (last_call.op = "advance" /\ last_call.at0 = Len(maffile)) =>
          /\ last_call.err = "none"
          /\ last_call.after.ended
          /\ Fields(last_call.after) = Fields(last_call.before)
    /\ (last_call.op # "none" /\ last_call.before.ended) =>
          /\ last_call.err = "none"
          /\ last_call.after = last_call.before
          /\ last_call.at1 = last_call.at0

\* the cursor is on a chromosome (it has read a record)
OnChr(r) == r.chr # "None"

\* C5 as stated: advance_to(target) with the cursor on the target or on a
\* chromosome after it reads no line and changes no cursor field.
C5_NoOpAtOrPast ==
    (/\ last_call.op = "advance_to"
     /\ OnChr(last_call.before)
     /\ ChrIndex(last_call.before.chr) >= ChrIndex(last_call.target)) =>
        /\ last_call.after = last_call.before
        /\ last_call.at1 = last_call.at0

\* C5 amended: advance_to(target) with the cursor on the target reads no line,
\* changes no cursor field and raises nothing.
C5_NoOpAtTarget ==
    (/\ last_call.op = "advance_to"
     /\ last_call.before.chr = last_call.target) =>
        /\ last_call.after = last_call.before
        /\ last_call.at1 = last_call.at0
        /\ last_call.err = "none"

\* advance_to was called with the cursor on the target and lines left to read
C5_Witness ==
    /\ last_call.op = "advance_to"
    /\ last_call.before.chr = last_call.target
    /\ last_call.at0 < Len(maffile)

\* the cursor r is on the same record as the cursor q or on a later one: on a
\* later chromosome, or on the same chromosome at the same or a higher position
AtOrAfter(r, q) ==
    \/ ChrIndex(r.chr) > ChrIndex(q.chr)
    \/ (r.chr = q.chr /\ r.pos >= q.pos)

\* C11 as stated: no call of advance or advance_to leaves the cursor with a pos
\* smaller than the pos it had before the call.
C11_PosNonDecreasing ==
    (last_call.op # "none" /\ OnChr(last_call.before)) =>
        last_call.after.pos >= last_call.before.pos

\* C11 amended: no call of advance or advance_to moves the cursor back in the
\* stream: the call un-reads no line, and it leaves the cursor on the
\* chromosome it was on with a pos at least as high, or on a later chromosome
\* (where pos starts again from that chromosome's first record).
C11_ForwardOnly ==
    /\ last_call.op # "none" => last_call.at1 >= last_call.at0
    /\ (last_call.op # "none" /\ OnChr(last_call.before)) =>
          AtOrAfter(last_call.after, last_call.before)

\* a call took the cursor from one chromosome to the next, onto a lower pos
C11_Witness ==
    /\ last_call.op # "none"
    /\ OnChr(last_call.before)
    /\ ChrIndex(last_call.after.chr) > ChrIndex(last_call.before.chr)
    /\ last_call.after.pos < last_call.before.pos

-----------------------------------------------------------------------------
(* The join, stated from the two inputs *)

\* the pass of chromosome i is over: for_entry has returned
PassFinished == i >= 1 /\ pc \in {"loop", "done"}

\* the chromosome whose files src_lines and dest_file are: the files of
\* chromosome i are opened only once advance_to has returned
FileChr == IF last_call.err # "none" THEN i - 1 ELSE i

\* the records of the source file read so far, and the records written
Records == DataOf(src_lines)

Written == IF dest_file = <<>> THEN <<>> ELSE Tail(dest_file)

\* the MAF column of the layout the source file declares
MafColumn ==
    LET h == DeclaredHeader(src_lines)
    IN CHOOSE col \in 1..Len(h) : h[col] = "minor_allele_frequency"

\* the reference records of chromosome c at the position of a source record
RefAt(c, rec) ==
    {k \in 1..Len(maffile) : maffile[k][1] = ChrName(c) /\ maffile[k][2] = rec[4]}

\* the MAF the join is to give a record of chromosome c: the reference's value
\* at its position, -1 if the reference has none
JoinedMaf(c, rec) ==
    IF RefAt(c, rec) = {} THEN -10000
    ELSE FloatOf(maffile[CHOOSE k \in RefAt(c, rec) : TRUE][3])

\* the process_entry calls made on records (not on a header line)
RecordCalls == SelectSeq(joined, LAMBDA j : IsDataLine(src_lines[j.line]))

\* C1: on one chromosome, process_entry is applied to every record of the
\* variant stream (no call raises, also when the reference runs out first or is
\* empty), and each record then carries the reference's MAF at its position,
\* or -1 if the reference has no record there.
C1_MergeJoin ==
    \A k \in 1..Len(RecordCalls) :
        /\ RecordCalls[k].err = "none"
        /\ k <= Len(Written)
        /\ FloatOf(Written[k][MafColumn]) = JoinedMaf(FileChr, Records[k])

\* how many records read so far have a reference record at their position
Matching == Cardinality({k \in 1..Len(Records) : RefAt(FileChr, Records[k]) # {}})

\* C2: the counters are 0 when a pass starts; when the pass finishes, hits is
\* the number of records whose position occurs in the reference for the
\* chromosome, misses the number of the other records, and their sum the
\* number of records processed.
C2_HitMiss ==
    /\ (pc = "for_entry" /\ src_lines = <<>>) => (hits = 0 /\ misses = 0)
    /\ PassFinished =>
          /\ hits = Matching
          /\ misses = Len(Records) - Matching
          /\ hits + misses = Len(joined)

\* the pass of the end-to-end scenario is finished: records at 100, 200, 300
\* against the reference 100, 300 gave 2 hits and 1 miss
C2_Witness ==
    /\ PassFinished
    /\ [k \in 1..Len(Records) |-> Records[k][4]] = <<"100", "200", "300">>
    /\ [k \in 1..Len(maffile) |-> <<maffile[k][1], maffile[k][2]>>] =
          <<<<ChrName(FileChr), "100">>, <<ChrName(FileChr), "300">>>>
    /\ hits = 2
    /\ misses = 1

RefPos(k) == IntOf(maffile[k][2])

RecPos(rec) == IntOf(rec[4])

\* C6: a process_entry call for a record at position p of chromosome c passes
\* over a reference record only if it is on c with a position below p; when the
\* call returns the cursor is ended, or on another chromosome, or on the first
\* reference record of c at or after p; no reference record at q is passed over
\* before every source record at or below q was processed; and two consecutive
\* records at one position get the same MAF.
C6_LazyAdvance ==
    LET recs == Records
        calls == RecordCalls
        out == Written
        chr == ChrName(FileChr)
    IN /\ \A k \in 1..Len(calls) :
             LET call == calls[k]
                 p == RecPos(recs[k])
                 passed == {j \in 1..Len(maffile) :
                              \/ call.from <= j /\ j < call.to
                              \/ call.err = "IndexError" /\ j = call.to}
             IN /\ \A j \in passed :
                      /\ maffile[j][1] = chr
                      /\ RefPos(j) < p
                      /\ \A m \in 1..Len(recs) : RecPos(recs[m]) <= RefPos(j) => m < k
                /\ call.err = "none" =>
                      \/ call.cur.ended
                      \/ call.cur.chr # chr
                      \/ /\ call.cur.pos >= p
                         /\ call.cur.pos = RefPos(call.to)
                         /\ \A j \in 1..(call.to - 1) :
                               maffile[j][1] = chr => RefPos(j) < p
       /\ Len(out) >= 2 =>
             LET maf == MafColumn
             IN \A k \in 1..(Len(out) - 1) :
                   recs[k][4] = recs[k + 1][4] => out[k][maf] = out[k + 1][maf]

\* a call passed over a reference record and returned with the cursor on the
\* record at its position, and the next record, at the same position, hit too
C6_Witness ==
    /\ Len(RecordCalls) = 2 /\ Len(Written) = 2
    /\ RecordCalls[1].from >= 1 /\ RecordCalls[1].to > RecordCalls[1].from
    /\ RecordCalls[1].err = "none"
    /\ RecordCalls[1].cur.pos = RecPos(Records[1])
    /\ Records[1][4] = Records[2][4]
    /\ hits = 2

\* C7: use_alt_header runs at most once in a run, the mapping never goes back
\* to the default layout, and no line that is the default header or the
\* alternate header is handed to the callback as a record.
C7_HeaderSwitch ==
    /\ alt_switches <= 1
    /\ (alt_switches >= 1 => HEADER = ALT_HEADER)
    /\ handed \cap {"default header", "alternate header"} = {}

-----------------------------------------------------------------------------
(* The passes of a run, one after the other *)

\* the reference has at least one record for every chromosome of the run
EveryChrInRef ==
    \A c \in 1..NumChr : \E k \in 1..Len(maffile) : maffile[k][1] = ChrName(c)

\* the reference records of chromosome c, as places in the stream
RefOf(c) == {k \in 1..Len(maffile) : maffile[k][1] = ChrName(c)}

\* the place of the first reference record of chromosome c
FirstOf(c) == CHOOSE k \in RefOf(c) : \A j \in RefOf(c) : k <= j

\* the cursor holds the record at place k of the stream, the last one read
CursorOn(k) ==
    /\ maf_at = k
    /\ maf_reader.chr = maffile[k][1]
    /\ maf_reader.pos = IntOf(maffile[k][2])
    /\ maf_reader.maf = FloatOf(maffile[k][3])

\* the pass of chromosome i has just started: the files are open, no line read
PassStarted == pc = "for_entry" /\ src_lines = <<>>

\* the previous pass left the cursor on a record of its own chromosome
LeftOnPrevious ==
    /\ last_call.op = "advance_to"
    /\ i >= 2
    /\ last_call.before.chr = ChrName(i - 1)

\* the previous pass had already taken the cursor onto this chromosome
LeftOnThis ==
    /\ last_call.op = "advance_to"
    /\ i >= 2
    /\ last_call.before.chr = ChrName(i)

\* the transition part of C12: on a reference with a record for every
\* chromosome, advance_to raises nothing at the start of a pass, and the pass
\* of chromosome c starts with the cursor on the first reference record of c,
\* whether the previous pass left it on chromosome c-1 or on c already.
C12_PassStart ==
    EveryChrInRef =>
        /\ last_call.op = "advance_to" => last_call.err = "none"
        /\ PassStarted => CursorOn(FirstOf(i))

\* both ways into a pass have happened: one pass started with the cursor moved
\* off the previous chromosome by advance_to
C12_WitnessPrevious == EveryChrInRef /\ PassStarted /\ LeftOnPrevious

\* and one with the cursor already on the first record of the chromosome
C12_WitnessThis == EveryChrInRef /\ PassStarted /\ LeftOnThis

\* C12: on a reference with a record for every chromosome, each pass starts
\* with the cursor on the first reference record of its chromosome, and so
\* the join of every chromosome of the run is that of the chromosome alone:
\* every record is processed and carries the reference's MAF at its position,
\* or -1.
C12_NoRecordLost ==
    EveryChrInRef =>
        /\ last_call.op = "advance_to" => last_call.err = "none"
        /\ PassStarted => CursorOn(FirstOf(i))
        /\ LET calls == RecordCalls
               recs == Records
               out == Written
           IN \A k \in 1..Len(calls) :
                 /\ calls[k].err = "none"
                 /\ k <= Len(out)
                 /\ FloatOf(out[k][MafColumn]) = JoinedMaf(FileChr, recs[k])

\* C13: the header line written to a destination file is the header of the
\* layout its source file declares, so it has as many columns as every record
\* written after it has fields.
C13_HeaderMatches ==
    (dest_file # <<>> /\ HasHeader(src_lines)) =>
        /\ dest_file[1] = DeclaredHeader(src_lines)
        /\ \A k \in 2..Len(dest_file) : Len(dest_file[k]) = Len(dest_file[1])

\* the chromosome occurs in the stream after its first `at` lines
InRest(chr, at) == \E k \in (at + 1)..Len(maffile) : maffile[k][1] = chr

\* C16: advance_to(target) returns also when the target chromosome does not
\* occur in the rest of the stream, and the cursor is then ended; the skip
\* loop of process_entry returns; so the run never stops on an exception of
\* the cursor before the pass of the last chromosome is complete.
C16_Termination ==
    /\ (/\ last_call.op = "advance_to"
        /\ last_call.before.chr # last_call.target
        /\ ~InRest(last_call.target, last_call.at0)) =>
            /\ last_call.err = "none"
            /\ last_call.after.ended
    /\ \A k \in 1..Len(joined) : joined[k].err # "IndexError"
    /\ error # "IndexError"

\* C17: at every point of a remaf run at most one source file and one
\* destination file are open, both of the chromosome being processed; and
\* none is open once that chromosome's pass is over, whether for_entry
\* returned or the pass stopped on an error part-way through.
C17_FilesScoped ==
    /\ open_files \subseteq {<<"src", i>>, <<"dest", i>>}
    /\ pc \in {"loop", "done"} => open_files = {}
    /\ pc = "error" => open_files = {}

\* the chromosomes of the run the reference has no record for
Absent == {c \in 1..NumChr : RefOf(c) = {}}

\* the reference records the last call on the cursor passed over: the record
\* the cursor held and those read before the one it holds now (every record
\* read, when the call raised at the end of the stream)
PassedOver ==
    {k \in 1..Len(maffile) :
        \/ last_call.at0 <= k /\ k < last_call.at1
        \/ last_call.err # "none" /\ k = last_call.at1}

\* C18: when the reference has no record for chromosome c, advance_to(c)
\* returns without passing over a record of a later chromosome, the pass of c
\* gives every record of c the MAF -1, and every record of a later chromosome
\* gets the reference's MAF at its position, or -1, as on that chromosome
\* alone.
C18_Isolated ==
    /\ (last_call.op = "advance_to" /\ ChrIndex(last_call.target) \in Absent) =>
          /\ last_call.err = "none"
          /\ \A k \in PassedOver : ChrIndex(maffile[k][1]) <= ChrIndex(last_call.target)
    /\ (\E c \in Absent : c <= FileChr) =>
          LET calls == RecordCalls
              recs == Records
              out == Written
          IN \A k \in 1..Len(calls) :
                /\ calls[k].err = "none"
                /\ k <= Len(out)
                /\ FloatOf(out[k][MafColumn]) = JoinedMaf(FileChr, recs[k])

-----------------------------------------------------------------------------
(* Bin.  A mean is an exact fraction <<numerator, denominator>> in lowest     *)
(* terms: the rounding of float arithmetic is not modelled.                  *)

RECURSIVE GCD(_, _)
GCD(a, b) == IF b = 0 THEN a ELSE GCD(b, a % b)

Abs(x) == IF x < 0 THEN -x ELSE x

\* the fraction n/d (d > 0) in lowest terms
Frac(n, d) == LET g == GCD(Abs(n), d) IN IF g = 0 THEN <<0, 1>> ELSE <<n \div g, d \div g>>

\* Bin.__init__
NewBin(minimum, maximum) ==
    [minimum |-> minimum, maximum |-> maximum, n |-> 0, average |-> <<0, 1>>]

\* Bin.default_bins
DefaultBins ==
    <<NewBin(0, 5), NewBin(5, 10), NewBin(10, 20), NewBin(20, 50), NewBin(50, 100),
      NewBin(100, 150), NewBin(150, 200), NewBin(200, 350), NewBin(350, 500),
      NewBin(500, 1000), NewBin(1000, 2000), NewBin(2000, 3000), NewBin(3000, 4000),
      NewBin(4000, 5000)>>

\* add with the count taken one too high in the division
BinAddOffByOne(b, value) ==
    LET a == b.average
    IN [b EXCEPT !.n = b.n + 1,
                 !.average = Frac(a[1] * (b.n + 2) + (value * a[2] - a[1]),
                                  a[2] * (b.n + 2))]

\* Bin.add: self.n += 1; self.average = self.average + (value - self.average)/self.n
BinAdd(b, value) ==
    LET n2 == b.n + 1
        a == b.average
    IN [b EXCEPT !.n = n2,
                 !.average = Frac(a[1] * n2 + (value * a[2] - a[1]), a[2] * n2)]

\* in_range with the maximum included
InRangeClosed(b, item) == (b.minimum < item) /\ (item <= b.maximum)

\* Bin.in_range
InRange(b, item) == (b.minimum < item) /\ (item < b.maximum)

\* Bin.add_if_in_range: the bin after the call and the value returned
AddIfInRange(b, x, y) ==
    IF InRange(b, x) THEN [bin |-> BinAdd(b, y), returned |-> TRUE]
    ELSE [bin |-> b, returned |-> FALSE]

\* Bin.find_bin: the index of the first bin the item is in range of, 0 for None
FindBin(bs, item) ==
    IF \E k \in 1..Len(bs) : InRange(bs[k], item)
    THEN CHOOSE k \in 1..Len(bs) :
            InRange(bs[k], item) /\ \A j \in 1..(k - 1) : ~InRange(bs[j], item)
    ELSE 0

RECURSIVE SortEvery(_, _, _, _)
\* the loop of sort without its return: add_if_in_range is tried on every bin
SortEvery(bs, k, key, item) ==
    IF k > Len(bs) THEN [bins |-> bs, returned |-> FALSE]
    ELSE LET a == AddIfInRange(bs[k], key, item)
             rest == SortEvery([bs EXCEPT ![k] = a.bin], k + 1, key, item)
         IN [bins |-> rest.bins, returned |-> a.returned \/ rest.returned]

\* sort with the return left out of its loop
BinSortEvery(bs, key, item) == SortEvery(bs, 1, key, item)

RECURSIVE SortFrom(_, _, _, _)
\* the loop of Bin.sort from the k-th bin on:
\* for bin in bins: if bin.add_if_in_range(key, item): return True
SortFrom(bs, k, key, item) ==
    IF k > Len(bs) THEN [bins |-> bs, returned |-> FALSE]
    ELSE LET a == AddIfInRange(bs[k], key, item)
         IN IF a.returned THEN [bins |-> [bs EXCEPT ![k] = a.bin], returned |-> TRUE]
            ELSE SortFrom([bs EXCEPT ![k] = a.bin], k + 1, key, item)

\* Bin.sort: the bins after the call and the value returned
BinSort(bs, key, item) == SortFrom(bs, 1, key, item)

\* str(x) of a bin's minimum or maximum; the first bin's minimum is the int 0
StrOfBound(x) ==
    CASE x = 0 -> "0"
      [] x = 5 -> "0.0005"
      [] x = 10 -> "0.001"
      [] x = 20 -> "0.002"
      [] x = 50 -> "0.005"
      [] x = 100 -> "0.01"
      [] x = 150 -> "0.015"
      [] x = 200 -> "0.02"
      [] x = 350 -> "0.035"
      [] x = 500 -> "0.05"
      [] x = 1000 -> "0.1"
      [] x = 2000 -> "0.2"
      [] x = 3000 -> "0.3"
      [] x = 4000 -> "0.4"
      [] x = 5000 -> "0.5"
      [] x = 10000 -> "1"

\* Bin.__str__
BinStr(b) == StrOfBound(b.minimum) \o "-" \o StrOfBound(b.maximum)

\* str(Bin.find_bin(bins, item)): str(None) is "None"
StrOfFound(bs, item) ==
    IF FindBin(bs, item) = 0 THEN "None" ELSE BinStr(bs[FindBin(bs, item)])

-----------------------------------------------------------------------------
(* in_range and find_bin applied to one item of the default bins *)

\* items are 0 .. MaxItem ten-thousandths
MaxItem == 5200

\* in_range of every bin, and find_bin, for the item
ProbeItem ==
    /\ pc = "probe"
    /\ ~probe.done
    /\ probe' = [probe EXCEPT !.done = TRUE,
                              !.inside = {k \in 1..Len(bins) : InRange(bins[k], probe.item)},
                              !.found = FindBin(bins, probe.item)]
    /\ UNCHANGED <<HEADER, COLUMN, alt_switches, handed, maffile, maf_at, maf_reader, i, pc,
                   error, src_lines, dest_file, open_files, hits, misses, joined, last_call,
                   ncalls, bins, adds, stats, panel>>
    /\ UNCHANGED bandVars

InitProbe ==
    /\ Loaded
    /\ maffile = <<>>
    /\ pc = "probe"
    /\ bins = DefaultBins
    /\ adds = [k \in 1..Len(DefaultBins) |-> <<>>]
    /\ probe \in {[NoProbe EXCEPT !.item = x] : x \in 0..MaxItem}
    /\ stats = <<>>
    /\ panel = 0
    /\ NoBands

NextProbe == ProbeItem

SpecProbe == InitProbe /\ [][NextProbe]_vars

\* the boundary values of the 14 default bins, as the claim lists them
Boundaries == {0, 5, 10, 20, 50, 100, 150, 200, 350, 500, 1000, 2000, 3000, 4000, 5000}

-----------------------------------------------------------------------------
(* add_if_in_range called any number of times on one of the default bins *)

\* the values added: 0, 0.0003 and 0.001
AddValues == {0, 3, 10}

\* the keys tried on a bin: its minimum, a value inside it, its maximum
KeysOf(b) == {b.minimum, (b.minimum + b.maximum) \div 2, b.maximum}

\* a call bins[k].add_if_in_range(x, y), all calls being made on one bin
CallAddIfInRange(k, x, y) ==
    /\ pc = "bin"
    /\ ncalls < MaxCalls
    /\ \A j \in 1..Len(bins) : j # k => adds[j] = <<>>
    /\ ncalls' = ncalls + 1
    /\ bins' = [bins EXCEPT ![k] = AddIfInRange(bins[k], x, y).bin]
    /\ adds' = [adds EXCEPT ![k] = Append(@, <<x, y>>)]
    /\ UNCHANGED <<HEADER, COLUMN, alt_switches, handed, maffile, maf_at, maf_reader, i, pc,
                   error, src_lines, dest_file, open_files, hits, misses, joined, last_call,
                   probe, stats, panel>>
    /\ UNCHANGED bandVars

InitBin ==
    /\ Loaded
    /\ maffile = <<>>
    /\ pc = "bin"
    /\ bins = DefaultBins
    /\ adds = [k \in 1..Len(DefaultBins) |-> <<>>]
    /\ probe = NoProbe
    /\ stats = <<>>
    /\ panel = 0
    /\ NoBands

NextBin ==
    \E k \in 1..Len(bins) : \E x \in KeysOf(bins[k]) : \E y \in AddValues :
        CallAddIfInRange(k, x, y)

SpecBin == InitBin /\ [][NextBin]_vars

RECURSIVE SumOf(_)
\* the sum of the values y of a sequence of calls <<x, y>>
SumOf(calls) == IF calls = <<>> THEN 0 ELSE calls[1][2] + SumOf(Tail(calls))

\* the calls on bin k whose key was strictly inside (minimum, maximum)
InsideCalls(k) ==
    SelectSeq(adds[k], LAMBDA c : bins[k].minimum < c[1] /\ c[1] < bins[k].maximum)

\* C9: after any sequence of add_if_in_range calls on a bin, n is the number of
\* calls whose key was strictly inside the bin and average is the mean of the
\* values of those calls, 0 when there were none.
C9_RunningMean ==
    \A k \in 1..Len(bins) :
        /\ bins[k].n = Len(InsideCalls(k))
        /\ bins[k].average[2] > 0
        /\ IF InsideCalls(k) = <<>> THEN bins[k].average = <<0, 1>>
           ELSE bins[k].average[1] * Len(InsideCalls(k)) =
                    SumOf(InsideCalls(k)) * bins[k].average[2]

\* two values were added to a bin and a call with a key on its boundary was
\* refused; the mean is not a whole number of the unit
C9_Witness ==
    \E k \in 1..Len(bins) :
        /\ Len(adds[k]) = 3
        /\ bins[k].n = 2
        /\ bins[k].average[2] = 2

-----------------------------------------------------------------------------
(* Bin.sort called any number of times on a list of bins *)

\* a list of bins that overlap: (0, 0.001), (0.0005, 0.002), (0.001, 0.002)
OverlappingBins == <<NewBin(0, 10), NewBin(5, 20), NewBin(10, 20)>>

\* the keys sorted: inside one bin, on a boundary, inside two of the
\* overlapping bins, above every bin
SortKeys == {3, 5, 7, 15, 7000}

\* the items sorted: 0.0003 and 0.001
SortItems == {3, 10}

\* a call Bin.sort(bins, key, item)
CallSort(key, item) ==
    /\ pc = "sort"
    /\ ncalls < MaxCalls
    /\ ncalls' = ncalls + 1
    /\ LET a == BinSort(bins, key, item)
       IN /\ bins' = a.bins
          /\ last_sort' = [done |-> TRUE, key |-> key, item |-> item, before |-> bins,
                           returned |-> a.returned]
    /\ UNCHANGED <<HEADER, COLUMN, alt_switches, handed, maffile, maf_at, maf_reader, i, pc,
                   error, src_lines, dest_file, open_files, hits, misses, joined, last_call,
                   adds, probe, stats, panel, thresholds, ranges, categories, last_count>>

InitSort ==
    /\ Loaded
    /\ maffile = <<>>
    /\ pc = "sort"
    /\ bins \in {DefaultBins, OverlappingBins}
    /\ adds = <<>>
    /\ probe = NoProbe
    /\ stats = <<>>
    /\ panel = 0
    /\ NoBands

NextSort == \E key \in SortKeys : \E item \in SortItems : CallSort(key, item)

SpecSort == InitSort /\ [][NextSort]_vars

\* the bins of a list whose range strictly contains the key
Containing(bs, key) == {k \in 1..Len(bs) : bs[k].minimum < key /\ key < bs[k].maximum}

\* C14: a call Bin.sort(bins, key, item) changes at most one bin.  If some
\* bin's range strictly contains key, the first such bin in list order, the
\* one find_bin(bins, key) returns, gets item (its n grows by 1), no other bin
\* changes and the call returns True; if none does, no bin changes and the
\* call returns False.
C14_SortOneBin ==
    last_sort.done =>
        LET was == last_sort.before
            holders == Containing(was, last_sort.key)
        IN /\ Len(bins) = Len(was)
           /\ IF holders = {}
              THEN /\ ~last_sort.returned
                   /\ bins = was
                   /\ FindBin(was, last_sort.key) = 0
              ELSE LET first == CHOOSE k \in holders : \A j \in holders : k <= j
                   IN /\ last_sort.returned
                      /\ FindBin(was, last_sort.key) = first
                      /\ bins[first].n = was[first].n + 1
                      /\ bins[first] = BinAdd(was[first], last_sort.item)
                      /\ \A j \in 1..Len(bins) : j # first => bins[j] = was[j]

\* a key inside two of the overlapping bins was sorted into the first of them,
\* which held a value already
C14_Witness ==
    /\ last_sort.done
    /\ last_sort.returned
    /\ Cardinality(Containing(last_sort.before, last_sort.key)) = 2
    /\ \E k \in 1..Len(bins) : bins[k].n = 2

\* a key on a boundary of the default bins was sorted and no bin took it
C14_WitnessNone ==
    /\ last_sort.done
    /\ ~last_sort.returned
    /\ last_sort.before = bins
    /\ \E k \in 1..Len(bins) : bins[k].n > 0

-----------------------------------------------------------------------------
(* lineplot *)

\* args.source: the folders of the line report
Sources == <<"panelA", "panelB">>

\* Entry.info: float(self.data[COLUMN["info"]]), -1 on ValueError
EntryInfo(data) ==
    IF IsFloatTok(data[COLUMN["info"]]) THEN FloatOf(data[COLUMN["info"]]) ELSE -10000

\* Entry.maf: float(self.data[COLUMN["minor_allele_frequency"]]), -1 on ValueError
EntryMaf(data) ==
    IF IsFloatTok(data[COLUMN["minor_allele_frequency"]])
    THEN FloatOf(data[COLUMN["minor_allele_frequency"]])
    ELSE -10000

\* lineplot's process_entry: the rows it appends to stats for one entry
LineplotEntry(data, folder) ==
    IF EntryInfo(data) = -10000 THEN <<>>
    ELSE IF EntryMaf(data) = -10000 THEN <<>>
    ELSE <<[info |-> EntryInfo(data), bin |-> StrOfFound(bins, EntryMaf(data)),
            panel |-> folder]>>

\* the lines of a file lineplot reads: MAF inside a bin (0.0003), on a boundary
\* (0.1), above every bin (0.7), unparsable, or -1; info valid or unparsable
LineplotLines(c, lines) == SourceLines(c, lines, {1}, {"0.0003", "0.1", "0.7", "NA"}, {"0.9", "NA"})

\* for_folder's loop up to the call of for_entry: g(i), then open the file of
\* chromosome i of the folder (the first folder's first file, the next file of
\* the folder, or the first file of the next folder)
LineplotOpen ==
    /\ pc = "lineplot"
    /\ ~(panel = Len(Sources) /\ i = NumChr)
    /\ panel' = IF panel = 0 \/ i = NumChr THEN panel + 1 ELSE panel
    /\ i' = IF panel = 0 \/ i = NumChr THEN 1 ELSE i + 1
    /\ open_files' = open_files \cup {<<Sources[panel'], i'>>}
    /\ src_lines' = <<>>
    /\ pc' = "lineplot_for_entry"
    /\ UNCHANGED <<HEADER, COLUMN, alt_switches, handed, maffile, maf_at, maf_reader, error,
                   dest_file, hits, misses, joined, last_call, ncalls, bins, adds, probe,
                   stats>>
    /\ UNCHANGED bandVars

\* one turn of for_entry's loop in lineplot: the next line of the file
LineplotLine(line) ==
    /\ pc = "lineplot_for_entry"
    /\ Len(src_lines) < MaxLines
    /\ ForEntryDoes(line) = "f" => ncalls < MaxCalls
    /\ src_lines' = Append(src_lines, line)
    /\ LET what == ForEntryDoes(line)
       IN CASE what = "continue" ->
                 UNCHANGED <<HEADER, COLUMN, alt_switches, handed, stats, ncalls>>
            [] what = "use_alt_header" ->
                 /\ UseAltHeader
                 /\ UNCHANGED <<handed, stats, ncalls>>
            [] what = "f" ->
                 /\ handed' = handed \cup {KindOf(line)}
                 /\ stats' = stats \o LineplotEntry(line, Sources[panel])
                 /\ ncalls' = ncalls + 1
                 /\ UNCHANGED <<HEADER, COLUMN, alt_switches>>
    /\ UNCHANGED <<maffile, maf_at, maf_reader, i, pc, error, dest_file, open_files, hits,
                   misses, joined, last_call, bins, adds, probe, panel>>
    /\ UNCHANGED bandVars

\* for_entry returns at the end of the file
LineplotEndFile ==
    /\ pc = "lineplot_for_entry"
    /\ pc' = IF panel = Len(Sources) /\ i = NumChr THEN "done" ELSE "lineplot"
    /\ UNCHANGED <<HEADER, COLUMN, alt_switches, handed, maffile, maf_at, maf_reader, i,
                   error, src_lines, dest_file, open_files, hits, misses, joined, last_call,
                   ncalls, bins, adds, probe, stats, panel>>
    /\ UNCHANGED bandVars

\* the state when lineplot enters its loop over the folders
InitLineplot ==
    /\ Loaded
    /\ maffile = <<>>
    /\ pc = "lineplot"
    /\ bins = DefaultBins
    /\ adds = [k \in 1..Len(DefaultBins) |-> <<>>]
    /\ probe = NoProbe
    /\ stats = <<>>
    /\ panel = 0
    /\ NoBands

NextLineplot ==
    \/ LineplotOpen
    \/ \E line \in LineplotLines(i, src_lines) : LineplotLine(line)
    \/ LineplotEndFile

SpecLineplot == InitLineplot /\ [][NextLineplot]_vars

\* the labels of the 14 default bins
DefaultLabels == {BinStr(DefaultBins[k]) : k \in 1..Len(DefaultBins)}

\* C10: every row of the table comes from a record with a valid info score and
\* a valid MAF inside one of the default bins, so it carries the label of one
\* of the 14 default bins.
C10_RowsInBins ==
    \A k \in 1..Len(stats) :
        /\ stats[k].info # -10000
        /\ stats[k].bin \in DefaultLabels

-----------------------------------------------------------------------------
(* barplot.  The function is modelled as its text reads once the names that  *)
(* nothing in the file binds are taken for the ones next to them: vc.Bin     *)
(* for Bin (lines 293-300), enty for entry (line 309); line 300 is taken for *)
(* the dict comprehension {str(b): Bin.default_bins() for b in ranges}.      *)

\* args.thresholds of the runs checked: ascending, inside (0, 1)
ThresholdLists == {<<3000>>, <<5000>>, <<3000, 5000>>}

\* ranges: Bin(0, t[0]), Bin(t[i], t[i + 1]) for each i, then Bin(t[-1], 1)
BuildRanges(t) ==
    [k \in 1..(Len(t) + 1) |->
        NewBin(IF k = 1 THEN 0 ELSE t[k - 1], IF k = Len(t) + 1 THEN 10000 ELSE t[k])]

\* categories: str(b) -> Bin.default_bins(), a new list for each band b
BuildCategories(rs) == [label \in {BinStr(rs[k]) : k \in 1..Len(rs)} |-> DefaultBins]

RECURSIVE CountFrom(_, _, _, _)
\* the loop of update_count from the k-th band on:
\* for band in ranges: if band.in_range(info): Bin.sort(categories[str(band)], maf, info)
CountFrom(cats, k, maf, info) ==
    IF k > Len(ranges) THEN cats
    ELSE LET band == ranges[k]
             next == IF InRange(band, info)
                     THEN [cats EXCEPT ![BinStr(band)] = BinSort(@, maf, info).bins]
                     ELSE cats
         IN CountFrom(next, k + 1, maf, info)

\* barplot's update_count: categories after the call on one entry
UpdateCount(data) ==
    IF EntryInfo(data) = -10000 THEN categories
    ELSE IF EntryMaf(data) = -10000 THEN categories
    ELSE CountFrom(categories, 1, EntryMaf(data), EntryInfo(data))

\* the lines of a file barplot reads: MAF inside a bin (0.0003), on a boundary
\* (0.1) or unparsable; info 0, on a threshold (0.3), between thresholds (0.4),
\* above them (0.9) or unparsable
BarplotLines(c, lines) ==
    SourceLines(c, lines, {1}, {"0.0003", "0.1", "NA"}, {"0", "0.3", "0.4", "0.9", "NA"})

\* barplot up to the call of for_folder: build ranges, bins and categories
BarplotStart ==
    /\ pc = "barplot"
    /\ ranges' = BuildRanges(thresholds)
    /\ bins' = DefaultBins
    /\ categories' = BuildCategories(BuildRanges(thresholds))
    /\ pc' = "barplot_open"
    /\ UNCHANGED <<HEADER, COLUMN, alt_switches, handed, maffile, maf_at, maf_reader, i,
                   error, src_lines, dest_file, open_files, hits, misses, joined, last_call,
                   ncalls, adds, probe, stats, panel, last_sort, thresholds, last_count>>

\* for_folder's loop up to the call of for_entry: g(i), then open the file of
\* chromosome i
BarplotOpen ==
    /\ pc = "barplot_open"
    /\ i < NumChr
    /\ i' = i + 1
    /\ open_files' = open_files \cup {<<"source", i + 1>>}
    /\ src_lines' = <<>>
    /\ pc' = "barplot_for_entry"
    /\ UNCHANGED <<HEADER, COLUMN, alt_switches, handed, maffile, maf_at, maf_reader, error,
                   dest_file, hits, misses, joined, last_call, ncalls>>
    /\ UNCHANGED reportVars

\* one turn of for_entry's loop in barplot: the next line of the file
BarplotLine(line) ==
    /\ pc = "barplot_for_entry"
    /\ Len(src_lines) < MaxLines
    /\ ForEntryDoes(line) = "f" => ncalls < MaxCalls
    /\ src_lines' = Append(src_lines, line)
    /\ LET what == ForEntryDoes(line)
       IN CASE what = "continue" ->
                 UNCHANGED <<HEADER, COLUMN, alt_switches, handed, categories, last_count,
                             ncalls>>
            [] what = "use_alt_header" ->
                 /\ UseAltHeader
                 /\ UNCHANGED <<handed, categories, last_count, ncalls>>
            [] what = "f" ->
                 /\ handed' = handed \cup {KindOf(line)}
                 /\ categories' = UpdateCount(line)
                 /\ last_count' = [done |-> TRUE, info |-> EntryInfo(line),
                                   maf |-> EntryMaf(line), before |-> categories]
                 /\ ncalls' = ncalls + 1
                 /\ UNCHANGED <<HEADER, COLUMN, alt_switches>>
    /\ UNCHANGED <<maffile, maf_at, maf_reader, i, pc, error, dest_file, open_files, hits,
                   misses, joined, last_call, bins, adds, probe, stats, panel, last_sort,
                   thresholds, ranges>>

\* for_entry returns at the end of the file
BarplotEndFile ==
    /\ pc = "barplot_for_entry"
    /\ pc' = IF i = NumChr THEN "done" ELSE "barplot_open"
    /\ UNCHANGED <<HEADER, COLUMN, alt_switches, handed, maffile, maf_at, maf_reader, i,
                   error, src_lines, dest_file, open_files, hits, misses, joined, last_call,
                   ncalls>>
    /\ UNCHANGED reportVars

\* the state when barplot is called, for any of the threshold lists
InitBarplot ==
    /\ Loaded
    /\ maffile = <<>>
    /\ pc = "barplot"
    /\ bins = <<>>
    /\ adds = <<>>
    /\ probe = NoProbe
    /\ stats = <<>>
    /\ panel = 0
    /\ last_sort = NoSort
    /\ thresholds \in ThresholdLists
    /\ NoBarplot

NextBarplot ==
    \/ BarplotStart
    \/ BarplotOpen
    \/ \E line \in BarplotLines(i, src_lines) : BarplotLine(line)
    \/ BarplotEndFile

SpecBarplot == InitBarplot /\ [][NextBarplot]_vars

\* the bounds of band k of n + 1 bands: 0 or thresholds[k - 1], thresholds[k] or 1
BandLow(k) == IF k = 1 THEN 0 ELSE thresholds[k - 1]

BandHigh(k) == IF k = Len(thresholds) + 1 THEN 10000 ELSE thresholds[k]

RECURSIVE CountOf(_)
\* how many values a list of bins holds
CountOf(bs) == IF bs = <<>> THEN 0 ELSE bs[1].n + CountOf(Tail(bs))

\* the bands whose bins the last update_count call changed
BandsChanged ==
    {k \in 1..Len(ranges) :
        categories[BinStr(ranges[k])] # last_count.before[BinStr(ranges[k])]}

\* the last update_count call was on a record with a valid MAF, inside one of
\* the default bins, and a valid info score in [0, 1)
CountedRecord ==
    /\ last_count.done
    /\ FindBin(DefaultBins, last_count.maf) # 0
    /\ 0 <= last_count.info /\ last_count.info < 10000

\* C15: for ascending thresholds t[0..n-1], barplot builds the n + 1 bands
\* [0, t[0]), [t[0], t[1]), ..., [t[n-1], 1), each with a default bin set of
\* its own; a record with a valid MAF and a valid info score in [0, 1) is
\* counted in exactly one band, the band [low, high) with low <= info < high
\* (so an info score equal to a threshold counts in the band starting there),
\* and no other band's bins change.
C15_BandPartition ==
    /\ pc \notin {"barplot"} =>
          /\ Len(ranges) = Len(thresholds) + 1
          /\ \A k \in 1..Len(ranges) :
                /\ ranges[k].minimum = BandLow(k)
                /\ ranges[k].maximum = BandHigh(k)
                /\ BinStr(ranges[k]) \in DOMAIN categories
    /\ CountedRecord =>
          LET band == CHOOSE k \in 1..Len(ranges) :
                         BandLow(k) <= last_count.info /\ last_count.info < BandHigh(k)
              label == BinStr(ranges[band])
          IN /\ BandsChanged = {band}
             /\ CountOf(categories[label]) = CountOf(last_count.before[label]) + 1

====
